---- MODULE Spec2Model ----
(***************************************************************************)
(* Model of install_rimworld_access.py: the path resolver, the release     *)
(* fetcher, the two package installers, the ModsConfig.xml patcher and the *)
(* orchestrator main().  The filesystem (Mods directory, temporary         *)
(* archives and extraction directories, config file and its backup) is     *)
(* the persistent state; it survives from one run of the program to the    *)
(* next.                                                                   *)
(***************************************************************************)
EXTENDS Integers, Sequences, FiniteSets, TLC

(***************************************************************************)
(* Bounds                                                                  *)
(***************************************************************************)
MaxLen == 4

VARIABLES
    pc,           \* position of the running program
    \* --- ModsConfig.xml patcher
    cfg,          \* ModsConfig.xml on disk
    backup,       \* ModsConfig.xml.backup on disk
    current_mods, \* local of update_mods_config
    cfgResult,    \* value returned by update_mods_config
    preCfg,       \* history: config file when the current run of the patcher began
    preBackup,    \* history: backup file when the current run of the patcher began
    wroteCfg,     \* history: this run opened the config file for writing
    wroteBackup,  \* history: this run copied onto the backup file
    prevOk,       \* history: the run before this one returned True on a parseable file
    \* --- release fetcher
    releases,     \* what the "list releases" endpoint answers
    relChannel,   \* release_type of the last call
    relHttpOk,    \* history: the HTTP call of the last call succeeded
    relLatest,    \* history: what the "latest release" endpoint answered
    relResult,    \* value returned by get_latest_github_release
    \* --- path resolver, installers, orchestrator
    defaultDir,   \* what is at the default Steam location
    user_path,    \* what the path typed at the prompt points at
    rimworld_path,\* what find_rimworld_directory returned
    version_choice,\* text typed at the channel prompt
    release_type, \* channel chosen at the prompt
    mods_dir,     \* the Mods directory: installed folder -> its files
    zipFile,      \* per package: the downloaded archive exists
    tempExists,   \* per package: the extraction directory exists
    tempTree,     \* per package: extraction directory, folder -> its files
    instResult,   \* per package: how the install function ended
    exitCode,     \* exit code of main, -1 while running
    caught,       \* what main's outer handlers caught
    lastInstall   \* history: the last package install that got as far as extracting

cfgVars == <<cfg, backup, current_mods, cfgResult, preCfg, preBackup,
             wroteCfg, wroteBackup, prevOk>>
relVars == <<releases, relChannel, relHttpOk, relLatest, relResult>>
fsVars == <<mods_dir, zipFile, tempExists, tempTree>>
mainVars == <<defaultDir, user_path, rimworld_path, version_choice, release_type,
              instResult, exitCode, caught, lastInstall>>

vars == <<pc, cfgVars, relVars, fsVars, mainVars>>

SeqsUpTo(S, n) == UNION {[1..k -> S] : k \in 0..n}

(***************************************************************************)
(* Release fetcher (get_latest_github_release)                             *)
(* Tags and file names are sequences of characters, so that lower(),       *)
(* substring search and endswith() are computed and not assumed.           *)
(***************************************************************************)
MaxReleases == 2

\* str.lower() on the characters that occur in the tags
LowerChar(c) ==
    CASE c = "B" -> "b"
      [] c = "E" -> "e"
      [] c = "T" -> "t"
      [] c = "A" -> "a"
      [] c = "D" -> "d"
      [] c = "V" -> "v"
      [] OTHER -> c

Lower(s) == [i \in 1..Len(s) |-> LowerChar(s[i])]

\* sub in s
Contains(s, sub) ==
    \E k \in 0..(Len(s) - Len(sub)) : SubSeq(s, k + 1, k + Len(sub)) = sub

\* s.endswith(suf)
EndsWith(s, suf) ==
    /\ Len(s) >= Len(suf)
    /\ SubSeq(s, Len(s) - Len(suf) + 1, Len(s)) = suf

BetaMarker == <<"-", "b", "e", "t", "a">>
DevTag == <<"d", "e", "v">>
ZipSuffix == <<".", "z", "i", "p">>

IsBetaReleaseMut(r) == Contains(r.tag_name, BetaMarker)
\* '-beta' in r.get('tag_name', '').lower()
IsBetaRelease(r) == Contains(Lower(r.tag_name), BetaMarker)

\* r.get('tag_name', '').lower() == 'dev'
IsDevRelease(r) == Lower(r.tag_name) = DevTag

None == <<>>

\* for asset in latest_release.get('assets', []): first name ending in .zip
RECURSIVE FirstZipFrom(_, _)
FirstZipFrom(assets, i) ==
    IF i > Len(assets) THEN None
    ELSE IF EndsWith(assets[i].name, ZipSuffix)
            THEN assets[i].browser_download_url
            ELSE FirstZipFrom(assets, i + 1)

FirstZip(release) == FirstZipFrom(release.assets, 1)

\* the whole of get_latest_github_release; httpOk = FALSE is any exception
\* raised by the request, caught by the function's except clause
GetLatestGithubRelease(rtype, httpOk, latest, list) ==
    IF ~httpOk THEN None
    ELSE IF rtype = "stable" THEN FirstZip(latest)
    ELSE IF list = <<>> THEN None
    ELSE IF rtype = "beta"
            THEN LET beta_releases == SelectSeq(list, IsBetaRelease)
                 IN  IF beta_releases = <<>> THEN None ELSE FirstZip(beta_releases[1])
    ELSE IF rtype = "dev"
            THEN LET dev_releases == SelectSeq(list, IsDevRelease)
                 IN  IF dev_releases = <<>> THEN None ELSE FirstZip(dev_releases[1])
    ELSE None

\* tags the API may report; <<>> is a release without tag_name
Tags == { <<"v", "1">>,
          <<"v", "2", "-", "b", "e", "t", "a">>,
          <<"V", "3", "-", "B", "e", "T", "A", "2">>,
          <<"b", "e", "t", "a">>,
          <<"d", "e", "v">>,
          <<"D", "E", "v">>,
          <<"d", "e", "v", "2">>,
          <<>> }

Asset(tag, name) == [name |-> name, browser_download_url |-> <<tag, name>>]

NotesTxt == <<"n", ".", "t", "x", "t">>
ModZip == <<"m", ".", "z", "i", "p">>
SrcZip == <<"s", ".", "z", "i", "p">>
UpperZip == <<"m", ".", "Z", "I", "P">>

\* asset lists a release may carry
AssetLists(tag) == { <<>>,
                     <<Asset(tag, NotesTxt), Asset(tag, ModZip), Asset(tag, SrcZip)>>,
                     <<Asset(tag, UpperZip)>> }

Releases == UNION {{[tag_name |-> t, assets |-> a] : a \in AssetLists(t)} : t \in Tags}

NoRelease == [tag_name |-> <<>>, assets |-> <<>>]

ReleaseTypes == {"stable", "beta", "dev"}

\* one call of get_latest_github_release against the current API state
Fetch(rtype) ==
    /\ pc = "fetch"
    /\ \E httpOk \in BOOLEAN :
       \E latest \in IF rtype = "stable" /\ httpOk THEN Releases ELSE {NoRelease} :
          /\ relChannel' = rtype
          /\ relHttpOk' = httpOk
          /\ relLatest' = latest
          /\ relResult' = GetLatestGithubRelease(rtype, httpOk, latest, releases)
    /\ pc' = "fetched"
    /\ UNCHANGED <<releases, cfgVars, fsVars, mainVars>>

FetchStable == Fetch("stable")
FetchBeta == Fetch("beta")
FetchDev == Fetch("dev")
FetchInvalid == Fetch("nightly")

RelIdle ==
    /\ releases = <<>>
    /\ relChannel = "none"
    /\ relHttpOk = FALSE
    /\ relLatest = NoRelease
    /\ relResult = None

(***************************************************************************)
(* ModsConfig.xml: the config patcher (update_mods_config)                 *)
(***************************************************************************)
required_mods == <<"brrainz.harmony", "ludeon.rimworld", "shane12300.rimworldaccess">>

OtherIds == {"x.mod", "y.mod"}

\* the text of an <li> element; "" stands for an <li> without text
LiTexts == {required_mods[i] : i \in 1..3} \cup OtherIds \cup {""}

NoFile == [kind |-> "missing", hasActive |-> FALSE, items |-> <<>>]
BadXml == [kind |-> "corrupt", hasActive |-> FALSE, items |-> <<>>]

XmlDoc(hasActive, items) == [kind |-> "xml", hasActive |-> hasActive, items |-> items]

\* the documents a config file is drawn from: with or without an activeMods
\* element (which then has no children)
XmlDocs == {XmlDoc(TRUE, s) : s \in SeqsUpTo(LiTexts, MaxLen)} \cup {XmlDoc(FALSE, <<>>)}

FileStates == {NoFile, BadXml} \cup XmlDocs

\* [li.text for li in active_mods.findall('li') if li.text]
CurrentMods(doc) == SelectSeq(doc.items, LAMBDA t : t # "")

\* s[:n]
Take(s, n) == SubSeq(s, 1, IF Len(s) < n THEN Len(s) ELSE n)

InRequired(m) == \E i \in 1..Len(required_mods) : required_mods[i] = m

AlreadyCorrectMut(mods) == mods = required_mods
\* current_mods[:3] == required_mods
AlreadyCorrect(mods) == Take(mods, 3) = required_mods

RebuiltModsMut(mods) == required_mods \o mods
\* active_mods.clear(); required mods first; then every other previous mod
RebuiltMods(mods) == required_mods \o SelectSeq(mods, LAMBDA m : ~InRequired(m))

\* if not config_file.exists(): ... return True
CfgExists ==
    /\ pc = "cfg_exists"
    /\ preCfg' = cfg
    /\ preBackup' = backup
    /\ wroteCfg' = FALSE
    /\ wroteBackup' = FALSE
    /\ current_mods' = <<>>
    /\ IF cfg.kind = "missing"
          THEN /\ cfgResult' = "True"
               /\ pc' = "cfg_returned"
          ELSE /\ cfgResult' = "none"
               /\ pc' = "cfg_parse"
    /\ UNCHANGED <<cfg, backup, prevOk>>
    /\ UNCHANGED <<relVars, fsVars, mainVars>>

\* ET.parse; find or create activeMods; read current mods; early return
CfgParse ==
    /\ pc = "cfg_parse"
    /\ IF cfg.kind = "corrupt"
          THEN /\ cfgResult' = "False"
               /\ pc' = "cfg_returned"
               /\ UNCHANGED current_mods
          ELSE /\ current_mods' = CurrentMods(cfg)
               /\ IF AlreadyCorrect(CurrentMods(cfg))
                     THEN /\ cfgResult' = "True"
                          /\ pc' = "cfg_returned"
                     ELSE /\ cfgResult' = "none"
                          /\ pc' = "cfg_backup"
    /\ UNCHANGED <<cfg, backup, preCfg, preBackup, wroteCfg, wroteBackup, prevOk>>
    /\ UNCHANGED <<relVars, fsVars, mainVars>>

BackupCopyMut(ok) ==
    /\ pc = "cfg_backup"
    /\ wroteBackup' = FALSE
    /\ UNCHANGED backup
    /\ IF ok
          THEN /\ pc' = "cfg_write"
               /\ UNCHANGED cfgResult
          ELSE /\ cfgResult' = "False"
               /\ pc' = "cfg_returned"
    /\ UNCHANGED <<cfg, current_mods, preCfg, preBackup, wroteCfg, prevOk>>
    /\ UNCHANGED <<relVars, fsVars, mainVars>>
\* shutil.copy2(config_file, backup_file); a failed copy may leave a
\* truncated backup behind
BackupCopy(ok) ==
    /\ pc = "cfg_backup"
    /\ wroteBackup' = TRUE
    /\ IF ok
          THEN /\ backup' = cfg
               /\ pc' = "cfg_write"
               /\ UNCHANGED cfgResult
          ELSE /\ backup' \in {backup, BadXml}
               /\ cfgResult' = "False"
               /\ pc' = "cfg_returned"
    /\ UNCHANGED <<cfg, current_mods, preCfg, preBackup, wroteCfg, prevOk>>
    /\ UNCHANGED <<relVars, fsVars, mainVars>>

CfgBackup == \E ok \in BOOLEAN : BackupCopy(ok)

\* rebuild the list and tree.write(config_file); a failed write may leave the
\* file as it was (open refused) or truncated
CfgWrite ==
    /\ pc = "cfg_write"
    /\ \E ok \in BOOLEAN :
          IF ok
             THEN /\ cfg' = XmlDoc(TRUE, RebuiltMods(current_mods))
                  /\ wroteCfg' = TRUE
                  /\ cfgResult' = "True"
             ELSE /\ \E opened \in BOOLEAN :
                        /\ wroteCfg' = opened
                        /\ cfg' = IF opened THEN BadXml ELSE cfg
                  /\ cfgResult' = "False"
    /\ pc' = "cfg_returned"
    /\ UNCHANGED <<backup, current_mods, preCfg, preBackup, wroteBackup, prevOk>>
    /\ UNCHANGED <<relVars, fsVars, mainVars>>

\* the installer is started again right after the previous run
CfgRerun ==
    /\ pc = "cfg_returned"
    /\ pc' = "cfg_exists"
    /\ prevOk' = (cfgResult = "True" /\ preCfg.kind = "xml")
    /\ cfgResult' = "none"
    /\ UNCHANGED <<cfg, backup, current_mods, preCfg, preBackup, wroteCfg, wroteBackup>>
    /\ UNCHANGED <<relVars, fsVars, mainVars>>

(***************************************************************************)
(* Path resolver (find_rimworld_directory)                                 *)
(***************************************************************************)
ExeNames == {"RimWorldWin64.exe", "RimWorldWin.exe"}

NoPath == [kind |-> "none", files |-> {}]
MissingPath == [kind |-> "missing", files |-> {}]
PlainFile == [kind |-> "file", files |-> {}]
Directory(files) == [kind |-> "dir", files |-> files]

\* what a path can point at
PathStates == {MissingPath, PlainFile} \cup {Directory(S) : S \in SUBSET ExeNames}

\* path.exists() and path.is_dir()
IsDirectory(p) == p.kind = "dir"

\* (path / "RimWorldWin64.exe").exists() or (path / "RimWorldWin.exe").exists()
HasGameExe(p) == "RimWorldWin64.exe" \in p.files \/ "RimWorldWin.exe" \in p.files

\* the default location is taken when it is an existing directory
FindDefault ==
    /\ pc = "find"
    /\ IF IsDirectory(defaultDir)
          THEN /\ rimworld_path' = defaultDir
               /\ pc' = "harmony"
          ELSE /\ pc' = "prompt_path"
               /\ UNCHANGED rimworld_path
    /\ UNCHANGED <<defaultDir, user_path, version_choice, release_type, instResult,
                   exitCode, caught, lastInstall>>
    /\ UNCHANGED <<cfgVars, relVars, fsVars>>

\* one round of the prompt loop
PromptPath ==
    /\ pc = "prompt_path"
    /\ \E p \in PathStates :
          /\ user_path' = p
          /\ IF IsDirectory(p) /\ HasGameExe(p)
                THEN /\ rimworld_path' = p
                     /\ pc' = "harmony"
                ELSE UNCHANGED <<rimworld_path, pc>>
    /\ UNCHANGED <<defaultDir, version_choice, release_type, instResult,
                   exitCode, caught, lastInstall>>
    /\ UNCHANGED <<cfgVars, relVars, fsVars>>

(***************************************************************************)
(* Package installers (install_harmony_mod, install_rimworld_access_mod)   *)
(* A directory tree is a function from top-level folder to its files.      *)
(***************************************************************************)
NumFolders == 1

Folders == 1..NumFolders
\* file names inside a mod folder
Files == {"About.xml", "Mod.dll"}
Pkgs == {"harmony", "access"}

EmptyTree == [f \in {} |-> {}]
Trees == UNION {[D -> SUBSET Files] : D \in SUBSET Folders}

\* extracting an archive into a directory that may already hold entries
Merge(tree, arch) ==
    [f \in (DOMAIN tree) \cup (DOMAIN arch) |->
        (IF f \in DOMAIN tree THEN tree[f] ELSE {}) \cup
        (IF f \in DOMAIN arch THEN arch[f] ELSE {})]

Without(tree, f) == [g \in (DOMAIN tree) \ {f} |-> tree[g]]
With(tree, f, files) == [g \in (DOMAIN tree) \cup {f} |-> IF g = f THEN files ELSE tree[g]]

NoInstall == [pkg |-> "none", archive |-> EmptyTree, preMods |-> EmptyTree, folder |-> 0]

\* answers of the release API the installers are run against
ApiAnswers ==
    { [httpOk |-> FALSE, latest |-> NoRelease, list |-> <<>>],
      [httpOk |-> TRUE,
       latest |-> [tag_name |-> <<"v", "1">>, assets |-> <<>>],
       list |-> <<[tag_name |-> <<"v", "1">>, assets |-> <<Asset(<<"v", "1">>, ModZip)>>]>>],
      [httpOk |-> TRUE,
       latest |-> [tag_name |-> <<"v", "1">>, assets |-> <<Asset(<<"v", "1">>, ModZip)>>],
       list |-> <<[tag_name |-> <<"v", "2", "-", "b", "e", "t", "a">>,
                   assets |-> <<Asset(<<"v", "2", "-", "b", "e", "t", "a">>, ModZip)>>],
                  [tag_name |-> <<"d", "e", "v">>,
                   assets |-> <<Asset(<<"d", "e", "v">>, ModZip)>>]>>] }

ReleaseUrls(rtype) ==
    {GetLatestGithubRelease(rtype, a.httpOk, a.latest, a.list) : a \in ApiAnswers}

\* the function returns False and main returns 1
ReturnFalse(pkg) ==
    /\ instResult' = [instResult EXCEPT ![pkg] = "False"]
    /\ exitCode' = 1
    /\ pc' = "exit"
    /\ UNCHANGED caught

\* the function raises; main's "except Exception" returns 1
Raise(pkg) ==
    /\ instResult' = [instResult EXCEPT ![pkg] = "raise"]
    /\ caught' = "exception"
    /\ exitCode' = 1
    /\ pc' = "exit"

\* mods_dir.mkdir(exist_ok=True) fails
InstallMkdirFails(pkg) ==
    /\ Raise(pkg)
    /\ lastInstall' = NoInstall
    /\ UNCHANGED fsVars

\* get_latest_github_release gave no URL
InstallNoUrl(pkg, rtype) ==
    /\ None \in ReleaseUrls(rtype)
    /\ ReturnFalse(pkg)
    /\ lastInstall' = NoInstall
    /\ UNCHANGED fsVars

\* download_file returned False; the destination may have been opened
InstallDownloadFails(pkg, rtype) ==
    /\ \E url \in ReleaseUrls(rtype) : url # None
    /\ \E opened \in BOOLEAN :
          zipFile' = [zipFile EXCEPT ![pkg] = zipFile[pkg] \/ opened]
    /\ ReturnFalse(pkg)
    /\ lastInstall' = NoInstall
    /\ UNCHANGED <<mods_dir, tempExists, tempTree>>

\* extract_zip returned False: nothing was written (started = FALSE) or the
\* members extracted before the error, part, were; only the archive file is
\* removed
InstallExtractFails(pkg, rtype) ==
    /\ \E url \in ReleaseUrls(rtype) : url # None
    /\ \E started \in BOOLEAN :
       \E part \in Trees :
          /\ (~started) => part = EmptyTree
          /\ tempExists' = [tempExists EXCEPT ![pkg] = tempExists[pkg] \/ started]
          /\ tempTree' = [tempTree EXCEPT ![pkg] = Merge(tempTree[pkg], part)]
    /\ zipFile' = [zipFile EXCEPT ![pkg] = FALSE]
    /\ ReturnFalse(pkg)
    /\ lastInstall' = NoInstall
    /\ UNCHANGED mods_dir

\* everything after a successful extraction of the archive arch
InstallAfterExtract(pkg, arch, okPc) ==
    LET extracted == Merge(tempTree[pkg], arch)
        extracted_folders == DOMAIN extracted
    IN  IF extracted_folders = {}
           THEN \* no folder: both temporaries removed, return False
                /\ tempExists' = [tempExists EXCEPT ![pkg] = FALSE]
                /\ tempTree' = [tempTree EXCEPT ![pkg] = EmptyTree]
                /\ zipFile' = [zipFile EXCEPT ![pkg] = FALSE]
                /\ ReturnFalse(pkg)
                /\ lastInstall' = [pkg |-> pkg, archive |-> arch,
                                   preMods |-> mods_dir, folder |-> 0]
                /\ UNCHANGED mods_dir
           ELSE \* extracted_folders[0]: listing order is not defined
                \E folder \in extracted_folders :
                   /\ lastInstall' = [pkg |-> pkg, archive |-> arch,
                                      preMods |-> mods_dir, folder |-> folder]
                   /\ \/ \* shutil.rmtree(destination) raises half way
                         /\ folder \in DOMAIN mods_dir
                         /\ \E left \in SUBSET mods_dir[folder] :
                               mods_dir' = With(mods_dir, folder, left)
                         /\ tempExists' = [tempExists EXCEPT ![pkg] = TRUE]
                         /\ tempTree' = [tempTree EXCEPT ![pkg] = extracted]
                         /\ zipFile' = [zipFile EXCEPT ![pkg] = TRUE]
                         /\ Raise(pkg)
                      \/ \* shutil.move raises
                         /\ mods_dir' = Without(mods_dir, folder)
                         /\ tempExists' = [tempExists EXCEPT ![pkg] = TRUE]
                         /\ tempTree' = [tempTree EXCEPT ![pkg] = extracted]
                         /\ zipFile' = [zipFile EXCEPT ![pkg] = TRUE]
                         /\ Raise(pkg)
                      \/ \* old installation removed, folder moved, cleanup
                         /\ mods_dir' = With(Without(mods_dir, folder), folder,
                                             extracted[folder])
                         /\ tempExists' = [tempExists EXCEPT ![pkg] = FALSE]
                         /\ tempTree' = [tempTree EXCEPT ![pkg] = EmptyTree]
                         /\ zipFile' = [zipFile EXCEPT ![pkg] = FALSE]
                         /\ instResult' = [instResult EXCEPT ![pkg] = "True"]
                         /\ pc' = okPc
                         /\ UNCHANGED <<exitCode, caught>>

InstallExtracted(pkg, rtype, okPc) ==
    /\ \E url \in ReleaseUrls(rtype) : url # None
    /\ \E arch \in Trees : InstallAfterExtract(pkg, arch, okPc)

\* one call of an install function, by the path it takes
Install(pkg, rtype, okPc) ==
    \/ InstallMkdirFails(pkg)
    \/ InstallNoUrl(pkg, rtype)
    \/ InstallDownloadFails(pkg, rtype)
    \/ InstallExtractFails(pkg, rtype)
    \/ InstallExtracted(pkg, rtype, okPc)

\* Step 2 of main
InstallHarmony ==
    /\ pc = "harmony"
    /\ Install("harmony", "stable", "choose")
    /\ UNCHANGED <<defaultDir, user_path, rimworld_path, version_choice, release_type>>
    /\ UNCHANGED <<cfgVars, relVars>>

ReleaseTypeOf(choice) ==
    CASE choice = "1" -> "stable"
      [] choice = "2" -> "beta"
      [] choice = "3" -> "dev"
      [] OTHER -> "none"

\* Step 3 of main: one round of the channel prompt
ChooseVersion ==
    /\ pc = "choose"
    /\ \E choice \in {"1", "2", "3", "4"} :
          /\ version_choice' = choice
          /\ IF choice \in {"1", "2", "3"}
                THEN /\ release_type' = ReleaseTypeOf(choice)
                     /\ pc' = "access"
                ELSE UNCHANGED <<release_type, pc>>
    /\ UNCHANGED <<defaultDir, user_path, rimworld_path, instResult, exitCode,
                   caught, lastInstall>>
    /\ UNCHANGED <<cfgVars, relVars, fsVars>>

\* Step 4 of main
InstallAccess ==
    /\ pc = "access"
    /\ Install("access", release_type, "cfg_exists")
    /\ UNCHANGED <<defaultDir, user_path, rimworld_path, version_choice, release_type>>
    /\ UNCHANGED <<cfgVars, relVars>>

(***************************************************************************)
(* Orchestrator (main)                                                     *)
(***************************************************************************)
MainFinishMut ==
    /\ pc = "cfg_returned"
    /\ exitCode' = IF cfgResult = "True" THEN 0 ELSE 1
    /\ pc' = "exit"
    /\ UNCHANGED <<defaultDir, user_path, rimworld_path, version_choice, release_type,
                   instResult, caught, lastInstall>>
    /\ UNCHANGED <<cfgVars, relVars, fsVars>>
\* update_mods_config returned, its value is dropped: return 0
MainFinish ==
    /\ pc = "cfg_returned"
    /\ exitCode' = 0
    /\ pc' = "exit"
    /\ UNCHANGED <<defaultDir, user_path, rimworld_path, version_choice, release_type,
                   instResult, caught, lastInstall>>
    /\ UNCHANGED <<cfgVars, relVars, fsVars>>

\* except KeyboardInterrupt: return 1
Interrupt ==
    /\ pc \in {"find", "prompt_path", "harmony", "choose", "access",
               "cfg_exists", "cfg_parse", "cfg_backup", "cfg_write", "cfg_returned"}
    /\ caught' = "interrupt"
    /\ exitCode' = 1
    /\ pc' = "exit"
    /\ UNCHANGED <<defaultDir, user_path, rimworld_path, version_choice, release_type,
                   instResult, lastInstall>>
    /\ UNCHANGED <<cfgVars, relVars, fsVars>>

\* sys.exit(main()); the installer is started again on the same disk
Restart ==
    /\ pc = "exit"
    /\ pc' = "find"
    /\ user_path' = NoPath
    /\ rimworld_path' = NoPath
    /\ version_choice' = "none"
    /\ release_type' = "none"
    /\ instResult' = [p \in Pkgs |-> "none"]
    /\ exitCode' = -1
    /\ caught' = "none"
    /\ lastInstall' = NoInstall
    /\ cfgResult' = "none"
    /\ UNCHANGED <<cfg, backup, current_mods, preCfg, preBackup, wroteCfg,
                   wroteBackup, prevOk>>
    /\ UNCHANGED <<defaultDir, relVars, fsVars>>

CfgIdle ==
    /\ cfg = NoFile
    /\ backup = NoFile
    /\ current_mods = <<>>
    /\ cfgResult = "none"
    /\ preCfg = NoFile
    /\ preBackup = NoFile
    /\ wroteCfg = FALSE
    /\ wroteBackup = FALSE
    /\ prevOk = FALSE

(***************************************************************************)
(* Specifications                                                          *)
(***************************************************************************)
MainIdle ==
    /\ defaultDir = MissingPath
    /\ user_path = NoPath
    /\ rimworld_path = NoPath
    /\ version_choice = "none"
    /\ release_type = "none"
    /\ mods_dir = EmptyTree
    /\ zipFile = [p \in Pkgs |-> FALSE]
    /\ tempExists = [p \in Pkgs |-> FALSE]
    /\ tempTree = [p \in Pkgs |-> EmptyTree]
    /\ instResult = [p \in Pkgs |-> "none"]
    /\ exitCode = -1
    /\ caught = "none"
    /\ lastInstall = NoInstall

InitConfig ==
    /\ pc = "cfg_exists"
    /\ cfg \in FileStates
    /\ backup \in {NoFile, XmlDoc(TRUE, <<"x.mod">>)}
    /\ current_mods = <<>>
    /\ cfgResult = "none"
    /\ preCfg = cfg
    /\ preBackup = backup
    /\ wroteCfg = FALSE
    /\ wroteBackup = FALSE
    /\ prevOk = FALSE
    /\ RelIdle
    /\ MainIdle

NextConfig == CfgExists \/ CfgParse \/ CfgBackup \/ CfgWrite \/ CfgRerun

SpecConfig == InitConfig /\ [][NextConfig]_vars

InitRelease ==
    /\ pc = "fetch"
    /\ releases \in SeqsUpTo(Releases, MaxReleases)
    /\ relChannel = "none"
    /\ relHttpOk = FALSE
    /\ relLatest = NoRelease
    /\ relResult = None
    /\ CfgIdle
    /\ MainIdle

NextRelease == FetchStable \/ FetchBeta \/ FetchDev \/ FetchInvalid

SpecRelease == InitRelease /\ [][NextRelease]_vars

InitMain ==
    /\ pc = "find"
    /\ defaultDir \in {MissingPath, Directory({}), Directory({"RimWorldWin64.exe"})}
    /\ user_path = NoPath
    /\ rimworld_path = NoPath
    /\ version_choice = "none"
    /\ release_type = "none"
    /\ mods_dir = EmptyTree
    /\ zipFile = [p \in Pkgs |-> FALSE]
    /\ tempExists = [p \in Pkgs |-> FALSE]
    /\ tempTree = [p \in Pkgs |-> EmptyTree]
    /\ instResult = [p \in Pkgs |-> "none"]
    /\ exitCode = -1
    /\ caught = "none"
    /\ lastInstall = NoInstall
    /\ cfg \in {NoFile, XmlDoc(TRUE, <<"x.mod">>)}
    /\ backup = NoFile
    /\ current_mods = <<>>
    /\ cfgResult = "none"
    /\ preCfg = cfg
    /\ preBackup = backup
    /\ wroteCfg = FALSE
    /\ wroteBackup = FALSE
    /\ prevOk = FALSE
    /\ RelIdle

NextMain ==
    \/ FindDefault
    \/ PromptPath
    \/ InstallHarmony
    \/ ChooseVersion
    \/ InstallAccess
    \/ CfgExists
    \/ CfgParse
    \/ CfgBackup
    \/ CfgWrite
    \/ MainFinish
    \/ Interrupt

SpecMain == InitMain /\ [][NextMain]_vars

\* the installer run again and again on one disk, on a machine that has the
\* game at the default location and no ModsConfig.xml yet
InitInstall ==
    /\ pc = "find"
    /\ defaultDir = Directory({"RimWorldWin64.exe"})
    /\ user_path = NoPath
    /\ rimworld_path = NoPath
    /\ version_choice = "none"
    /\ release_type = "none"
    /\ mods_dir \in Trees
    /\ zipFile = [p \in Pkgs |-> FALSE]
    /\ tempExists = [p \in Pkgs |-> FALSE]
    /\ tempTree = [p \in Pkgs |-> EmptyTree]
    /\ instResult = [p \in Pkgs |-> "none"]
    /\ exitCode = -1
    /\ caught = "none"
    /\ lastInstall = NoInstall
    /\ CfgIdle
    /\ RelIdle

NextInstall ==
    \/ FindDefault
    \/ InstallHarmony
    \/ ChooseVersion
    \/ InstallAccess
    \/ CfgExists
    \/ MainFinish
    \/ Interrupt
    \/ Restart

SpecInstall == InitInstall /\ [][NextInstall]_vars

(***************************************************************************)
(* Properties of the config patcher                                        *)
(***************************************************************************)
RequiredSet == {"brrainz.harmony", "ludeon.rimworld", "shane12300.rimworldaccess"}

\* positions of a list that hold an identifier other than the required three
KeptPositions(s) == {i \in 1..Len(s) : s[i] # "" /\ s[i] \notin RequiredSet}

Rewrote == pc = "cfg_returned" /\ cfgResult = "True" /\ wroteCfg

HasRequiredPrefix(s) ==
    /\ Len(s) >= 3
    /\ s[1] = "brrainz.harmony"
    /\ s[2] = "ludeon.rimworld"
    /\ s[3] = "shane12300.rimworldaccess"

\* C1: when update_mods_config rewrites an existing config file, the new
\* enabled list is the three required identifiers in order, followed by every
\* previously present identifier that is not required, in the original
\* relative order and with the original multiplicity.
C1_RewriteResult ==
    Rewrote =>
        /\ cfg.kind = "xml"
        /\ HasRequiredPrefix(cfg.items)
        /\ Len(cfg.items) = 3 + Cardinality(KeptPositions(preCfg.items))
        /\ \A i \in KeptPositions(preCfg.items) :
              cfg.items[3 + Cardinality({j \in KeptPositions(preCfg.items) : j <= i})]
                 = preCfg.items[i]

C1_Witness ==
    /\ Rewrote
    /\ preCfg.items = <<"x.mod", "brrainz.harmony", "y.mod", "x.mod">>
    /\ cfg.items = <<"brrainz.harmony", "ludeon.rimworld", "shane12300.rimworldaccess",
                     "x.mod", "y.mod", "x.mod">>

Occurrences(s, m) == Cardinality({i \in 1..Len(s) : s[i] = m})

\* C2: after update_mods_config returns success on an existing parseable
\* file, the enabled list starts with the three required identifiers in order
\* and holds each of them exactly once, also on the already-correct path.
C2_RequiredOnceAfterSuccess ==
    (pc = "cfg_returned" /\ cfgResult = "True" /\ preCfg.kind = "xml") =>
        /\ HasRequiredPrefix(CurrentMods(cfg))
        /\ \A m \in RequiredSet : Occurrences(CurrentMods(cfg), m) = 1

\* C3: a run that directly follows a successful run on a parseable file finds
\* the required prefix, writes neither the config file nor the backup, and
\* leaves both files as they were.
C3_SecondRunIdempotent ==
    (pc = "cfg_returned" /\ prevOk) =>
        /\ cfgResult = "True"
        /\ HasRequiredPrefix(current_mods)
        /\ ~wroteCfg
        /\ ~wroteBackup
        /\ cfg = preCfg
        /\ backup = preBackup

C3_Witness ==
    /\ pc = "cfg_returned"
    /\ prevOk
    /\ cfgResult = "True"
    /\ Len(cfg.items) > 3
    /\ backup.kind = "xml"
    /\ backup # cfg
    /\ backup # XmlDoc(TRUE, <<"x.mod">>)

\* C4: whenever a run has touched the config file, the backup was written
\* earlier in that run and equals the config file as it was when the run
\* began; a run that returns because the file is missing or the prefix is
\* already correct leaves the backup and the config file untouched.
C4_BackupBeforeModify ==
    /\ (pc \in {"cfg_write", "cfg_returned"} /\ (wroteCfg \/ cfg # preCfg)) =>
          (wroteBackup /\ backup = preCfg)
    /\ (pc = "cfg_write") => (wroteBackup /\ backup = preCfg /\ cfg = preCfg)
    /\ (pc = "cfg_returned" /\
        (preCfg.kind = "missing" \/
         (preCfg.kind = "xml" /\ HasRequiredPrefix(CurrentMods(preCfg))))) =>
          (~wroteBackup /\ backup = preBackup /\ ~wroteCfg /\ cfg = preCfg)

C4_Witness ==
    /\ pc = "cfg_returned"
    /\ wroteCfg
    /\ cfg # preCfg
    /\ preBackup.kind = "xml"
    /\ backup = preCfg
    /\ backup # preBackup

(***************************************************************************)
(* Properties of the release fetcher                                       *)
(***************************************************************************)
\* the tag holds "-beta" somewhere, in any mix of upper and lower case
HasBetaMarker(tag) ==
    \E k \in 0..(Len(tag) - 5) :
        /\ tag[k + 1] = "-"
        /\ tag[k + 2] \in {"b", "B"}
        /\ tag[k + 3] \in {"e", "E"}
        /\ tag[k + 4] \in {"t", "T"}
        /\ tag[k + 5] \in {"a", "A"}

\* the tag is "dev" in any mix of upper and lower case
IsDevName(tag) ==
    /\ Len(tag) = 3
    /\ tag[1] \in {"d", "D"}
    /\ tag[2] \in {"e", "E"}
    /\ tag[3] \in {"v", "V"}

ChannelMatches(tag) ==
    \/ relChannel = "beta" /\ HasBetaMarker(tag)
    \/ relChannel = "dev" /\ IsDevName(tag)

IsZipName(n) ==
    /\ Len(n) >= 4
    /\ n[Len(n) - 3] = "."
    /\ n[Len(n) - 2] = "z"
    /\ n[Len(n) - 1] = "i"
    /\ n[Len(n)] = "p"

\* the release the channel selects: none or one
SelectedReleases ==
    IF relChannel = "stable"
       THEN {relLatest}
       ELSE {releases[i] : i \in {j \in 1..Len(releases) :
                                    /\ ChannelMatches(releases[j].tag_name)
                                    /\ \A m \in 1..(j - 1) :
                                          ~ChannelMatches(releases[m].tag_name)}}

FirstZipUrls(r) ==
    {r.assets[k].browser_download_url :
        k \in {j \in 1..Len(r.assets) :
                 /\ IsZipName(r.assets[j].name)
                 /\ \A m \in 1..(j - 1) : ~IsZipName(r.assets[m].name)}}

ExpectedUrls ==
    IF relHttpOk THEN UNION {FirstZipUrls(r) : r \in SelectedReleases} ELSE {}

\* C8: stable takes the API's latest release whatever the list holds; beta
\* the first listed release whose tag contains "-beta" in any case; dev the
\* first whose tag equals "dev" in any case; the result is the URL of the
\* first asset of that release whose name ends in ".zip", and there is no
\* result when no release matches, no such asset exists or the HTTP call
\* fails.
C8_ChannelSelection ==
    (pc = "fetched" /\ relChannel \in {"stable", "beta", "dev"}) =>
        IF ExpectedUrls = {}
           THEN relResult = None
           ELSE ExpectedUrls = {relResult}

C8_Witness ==
    /\ pc = "fetched"
    /\ relChannel = "beta"
    /\ Len(releases) = 2
    /\ releases[1].tag_name = <<"v", "1">>
    /\ releases[2].tag_name = <<"V", "3", "-", "B", "e", "T", "A", "2">>
    /\ relResult = <<releases[2].tag_name, <<"m", ".", "z", "i", "p">>>>

(***************************************************************************)
(* Properties of the path resolver, the installers and main                *)
(***************************************************************************)
\* C5: once a package-install operation has ended, whichever way, neither
\* its downloaded archive nor its extraction directory exists.
C5_TemporariesRemoved ==
    \A p \in Pkgs :
        instResult[p] # "none" => (~zipFile[p] /\ ~tempExists[p])

InstallFailed(p) == instResult[p] \in {"False", "raise"}

NothingAfterHarmony ==
    /\ version_choice = "none"
    /\ release_type = "none"
    /\ instResult["access"] = "none"

ConfigNotRun ==
    /\ cfgResult = "none"
    /\ ~wroteBackup
    /\ ~wroteCfg
    /\ pc \notin {"cfg_exists", "cfg_parse", "cfg_backup", "cfg_write", "cfg_returned"}

\* exit code 1 and no later step in the three aborting cases
AbortingCases ==
    /\ (caught = "interrupt" /\ rimworld_path = NoPath) =>
          (pc = "exit" /\ exitCode = 1 /\ instResult["harmony"] = "none"
           /\ NothingAfterHarmony /\ ConfigNotRun)
    /\ InstallFailed("harmony") =>
          (pc = "exit" /\ exitCode = 1 /\ NothingAfterHarmony /\ ConfigNotRun)
    /\ InstallFailed("access") =>
          (pc = "exit" /\ exitCode = 1 /\ ConfigNotRun)

BothInstalled == instResult["harmony"] = "True" /\ instResult["access"] = "True"

\* C6 as stated: exit code 1 when directory resolution is interrupted or
\* either install fails, with no later step run; exit code 0 whenever both
\* installs succeed.
C6_ExitCodes ==
    /\ AbortingCases
    /\ (pc = "exit" /\ BothInstalled) => exitCode = 0

\* C6 amended: exit code 1 when directory resolution is interrupted or either
\* install fails, with no later step run; when both installs succeed the exit
\* code is 0 whatever update_mods_config returned, unless main's handlers
\* caught an interrupt or an exception after the second install, and then it
\* is 1.
C6_ExitCodesAmended ==
    /\ AbortingCases
    /\ (pc = "exit" /\ BothInstalled) =>
          /\ (caught = "none") => exitCode = 0
          /\ (caught # "none") => exitCode = 1

C6_Witness ==
    /\ pc = "exit"
    /\ BothInstalled
    /\ cfgResult = "False"
    /\ caught = "none"
    /\ exitCode = 0

\* C7: the path find_rimworld_directory returns is an existing directory
\* that contains RimWorldWin64.exe or RimWorldWin.exe.
C7_ReturnedPathValid ==
    rimworld_path # NoPath =>
        /\ rimworld_path.kind = "dir"
        /\ rimworld_path.files \cap {"RimWorldWin64.exe", "RimWorldWin.exe"} # {}

\* C9: no component-level operation lets an exception out; each returns a
\* failure value, so main's handler never sees an exception of theirs.
C9_NoExceptionEscapes ==
    /\ \A p \in Pkgs : instResult[p] \in {"none", "True", "False"}
    /\ caught # "exception"

ArchiveFiles(arch, folder) == IF folder \in DOMAIN arch THEN arch[folder] ELSE {}

\* C10: after a successful install over an installed directory of the same
\* name, no file of the previous installation that the new archive lacks is
\* left and the directory holds what the archive has for it; an archive
\* without a top-level folder makes the install fail and leaves the Mods
\* directory as it was.
C10_ReinstallReplaces ==
    \A p \in Pkgs :
        (lastInstall.pkg = p /\ instResult[p] # "none") =>
            /\ (instResult[p] = "True" /\ lastInstall.folder \in DOMAIN lastInstall.preMods) =>
                  /\ lastInstall.folder \in DOMAIN mods_dir
                  /\ \A file \in lastInstall.preMods[lastInstall.folder] :
                        file \notin ArchiveFiles(lastInstall.archive, lastInstall.folder)
                           => file \notin mods_dir[lastInstall.folder]
                  /\ mods_dir[lastInstall.folder]
                        = ArchiveFiles(lastInstall.archive, lastInstall.folder)
            /\ (DOMAIN lastInstall.archive = {}) =>
                  (InstallFailed(p) /\ mods_dir = lastInstall.preMods)

====
